---- MODULE Spec2Model ----
(***************************************************************************)
(* The NFS volume driver (drivers/nfs/nfs.go) as a state machine.          *)
(*                                                                         *)
(* Shared state: the key-value store the driver persists awsVolume         *)
(* records in, the directories it creates as backend storage, and the OS   *)
(* mount table.  Every volume operation runs on its own worker; a worker   *)
(* takes one atomic step per access to shared state (a store call, a       *)
(* filesystem call, a mount syscall), so operations of different workers   *)
(* interleave exactly where the Go code lets them.                         *)
(***************************************************************************)
EXTENDS Naturals, Sequences, FiniteSets, TLC

\* ---------------------------------------------------------------- bounds

\* The OS mount table holds at most this many mounts in total.
MaxMounts == 2

\* Operations started in one run.
MaxOps == 4

\* Concurrent workers (one per in-flight request).
Workers == {"w1", "w2"}

\* The values uuidgen can produce, each at most once; callers may also pass
\* any of them to an operation before or after the volume exists.
VolumeIDs == {"u1", "u2"}

\* Mount targets callers pass; "" is the empty path.
Targets == {"/mnt/x", "/mnt/y"}
TargetArgs == Targets \cup {""}

\* Values of api.VolumeSpec that callers pass to Create (Format only).
Specs == {[Format |-> "ext4"], [Format |-> "nfs"]}
ZeroSpec == [Format |-> ""]

\* ------------------------------------------------------------- constants

NfsDBKey == "OpenStorageNFSKey"

\* inst.mntPath: "/mnt/" + uuid of the driver instance.
mntPath == "/mnt/" \o "drv"

\* Error values an operation returns.  "nil" is success.
ErrKeyNotFound == "NotFound"
ErrStore == "IOFailure"
ErrOS == "OSError"

\* ErrNotSupported.Error().
ErrNotSupported == "Not Supported"

\* ------------------------------------------------------------------ state

VARIABLES
    db,          \* kvdb: key -> persisted awsVolume (DOMAIN = present keys)
    dirs,        \* directories that exist on the filesystem
    mounts,      \* OS mount table: target -> stack of mounted sources
    used,        \* uuids uuidgen has already produced
    call,        \* per worker: the operation it runs and where it stands
    ret,         \* what the most recent return handed to its caller
    nops,        \* operations started so far
    deleted,     \* history: ids for which a Delete returned nil
    interrupted, \* history: ids whose Delete was cut by a crash after os.Remove
    created,     \* history: ids that a Create returned with a nil error
    createdAs,   \* history: id -> the record its Create put with success
    codec,       \* how the kvdb behind d.db keeps a value (fixed per run)
    nfsMount,    \* whether the NFS server is mounted at inst.mntPath
    pool,        \* the Pool of an ErrStoragePoolResizeInProgress value
    errMsg       \* the message its Error() rendered, once it has

\* What no operation of the driver changes.
aux == <<codec, nfsMount, pool, errMsg>>

vars == <<db, dirs, mounts, used, call, ret, nops, deleted, interrupted,
          created, createdAs, aux>>

\* type awsVolume struct: the zero value, as &awsVolume{} builds it.
awsVolume ==
    [spec |-> ZeroSpec, formatted |-> FALSE, attached |-> FALSE,
     mounted |-> FALSE, device |-> "", mountpath |-> ""]

\* The key as it would be without the volumeID.
KeyWithoutID(volumeID) == NfsDBKey

Key(volumeID) == NfsDBKey \o "/" \o volumeID

Device(volumeID) == mntPath \o volumeID

\* A worker that runs nothing.
Idle ==
    [pc |-> "idle", op |-> "none", volumeID |-> "", mountpath |-> "",
     v |-> awsVolume]

\* What the caller of the operation c gets back: the operation, its
\* arguments (for Create, the id it returns) and the error.
Result(c, err) ==
    [op |-> c.op, volumeID |-> c.volumeID, mountpath |-> c.mountpath,
     err |-> err]

NoResult == [op |-> "none", volumeID |-> "", mountpath |-> "", err |-> "nil"]

RECURSIVE CountMounts(_, _)
CountMounts(m, ts) ==
    IF ts = {} THEN 0
    ELSE LET t == CHOOSE x \in ts : TRUE
         IN  Len(m[t]) + CountMounts(m, ts \ {t})

TotalMounts == CountMounts(mounts, Targets)

\* The kvdb behind d.db is chosen outside the driver (kvdb.Instance()):
\* one that keeps the Go value it was given, or one that encodes it with
\* encoding/json.
Codecs == {"value", "json"}

\* A nil LastOperation; a nil Pool; no message rendered.
NilOperation == [Type |-> "nil", Msg |-> "", Params |-> ""]
NoPool == [Uuid |-> "", LastOperation |-> NilOperation]
NoMsg == << >>

\* The driver as Init returns it: the store empty of its keys, the NFS
\* server mounted at inst.mntPath, no operation called yet.
DriverInit ==
    /\ db = << >>
    /\ dirs = {}
    /\ mounts = [t \in Targets |-> << >>]
    /\ used = {}
    /\ call = [p \in Workers |-> Idle]
    /\ ret = NoResult
    /\ nops = 0
    /\ deleted = {}
    /\ interrupted = {}
    /\ created = {}
    /\ createdAs = << >>
    /\ codec \in Codecs
    /\ nfsMount = TRUE

Init ==
    /\ DriverInit
    /\ pool = NoPool
    /\ errMsg = NoMsg

\* ------------------------------------------------------- state store adapter

\* kvdb is used through its interface: one call is atomic per key, and any
\* call may fail because the store cannot be reached.  A missing key is the
\* store's own not-found error, which d.get hands on unchanged.  What
\* GetVal hands back of a value that was Put depends on how the store keeps
\* it (codec).

\* The fields of awsVolume that encoding/json writes and reads: those whose
\* name starts with an upper-case letter.  spec, formatted, attached,
\* mounted, device and mountpath all start in lower case.
ExportedFields == {}

\* db.Put(key, v, 0): what the store keeps of the record v.
Marshal(v) ==
    IF codec = "json" THEN [f \in ExportedFields |-> v[f]] ELSE v

\* db.GetVal(key, v) into v := &awsVolume{}: the fields the stored value
\* has are set, the others stay zero.
Unmarshal(b) ==
    [f \in DOMAIN awsVolume |-> IF f \in DOMAIN b THEN b[f] ELSE awsVolume[f]]

\* d.get: the record under the key, or the store's error with a zero record.
\* reachable = FALSE is a store that cannot be reached.
get(volumeID, reachable) ==
    IF ~reachable THEN [v |-> awsVolume, err |-> ErrStore]
    ELSE IF Key(volumeID) \in DOMAIN db
         THEN [v |-> Unmarshal(db[Key(volumeID)]), err |-> "nil"]
         ELSE [v |-> awsVolume, err |-> ErrKeyNotFound]

\* d.put: the store after the call, and the error returned.
put(volumeID, v, reachable) ==
    IF reachable
    THEN [db |-> [k \in DOMAIN db \cup {Key(volumeID)} |->
                     IF k = Key(volumeID) THEN Marshal(v) ELSE db[k]],
          err |-> "nil"]
    ELSE [db |-> db, err |-> ErrStore]

\* d.del: the store after the call; the store's error is dropped.
del(volumeID, reachable) ==
    IF reachable
    THEN [k \in DOMAIN db \ {Key(volumeID)} |-> db[k]]
    ELSE db

\* ------------------------------------------------------------ OS primitives

\* syscall.Mount(source, target, fstype, 0, ""): whether the kernel can accept
\* it (an empty target path never resolves, and without flags an empty
\* fstype names no filesystem), and the table after it did.
CanMount(source, target, fstype) ==
    /\ target \in Targets
    /\ fstype # ""
    /\ TotalMounts < MaxMounts

SysMount(source, target) == [mounts EXCEPT ![target] = Append(@, source)]

\* syscall.Unmount(target, 0): only a path something is mounted on can be
\* unmounted; the topmost mount on it goes.
CanUnmount(target) == target \in Targets /\ mounts[target] # << >>

SysUnmount(target) ==
    [mounts EXCEPT ![target] = SubSeq(@, 1, Len(@) - 1)]

\* ------------------------------------------------------- workers and calls

\* A caller starts an operation on an idle worker.
Start(p) ==
    /\ call[p].pc = "idle"
    /\ nops < MaxOps
    /\ nops' = nops + 1

\* The operation c of worker p returns err to its caller.
Return(p, c, err) ==
    /\ call' = [call EXCEPT ![p] = Idle]
    /\ ret' = Result(c, err)

\* The operation of worker p goes on as c.
Goto(p, c) ==
    /\ call' = [call EXCEPT ![p] = c]
    /\ UNCHANGED ret

\* ----------------------------------------------------------------- Create

\* An id drawn from every possible id, whether or not it was drawn before.
uuidgenRepeating == VolumeIDs

\* Lines 105-110: the ids exec.Command("uuidgen") can print next; a uuid is
\* not printed twice.
uuidgen == VolumeIDs \ used

\* Lines 105-116: uuidgen, then MkdirAll(d.mntPath+volumeID).
CreateMkdir(p, spec) ==
    /\ Start(p)
    /\ uuidgen # {}
    /\ \/ \* uuidgen fails
          /\ Return(p, [Idle EXCEPT !.op = "Create"], ErrOS)
          /\ UNCHANGED <<used, dirs>>
       \/ \E volumeID \in uuidgen :
            /\ used' = used \cup {volumeID}
            /\ \/ \* MkdirAll fails
                  /\ Return(p, [Idle EXCEPT !.op = "Create"], ErrOS)
                  /\ UNCHANGED dirs
               \/ /\ dirs' = dirs \cup {Device(volumeID)}
                  /\ Goto(p, [Idle EXCEPT !.pc = "create_put", !.op = "Create",
                                          !.volumeID = volumeID,
                                          !.v = [awsVolume EXCEPT
                                                    !.device = Device(volumeID),
                                                    !.spec = spec]])
    /\ UNCHANGED <<db, mounts, deleted, interrupted, created, createdAs, aux>>

\* Lines 120-122: put the initial record, return the id and put's error.
CreatePut(p) ==
    /\ call[p].pc = "create_put"
    /\ \E reachable \in BOOLEAN :
         LET r == put(call[p].volumeID, call[p].v, reachable)
         IN  /\ db' = r.db
             /\ Return(p, call[p], r.err)
             /\ created' = IF r.err = "nil"
                           THEN created \cup {call[p].volumeID}
                           ELSE created
             /\ createdAs' =
                  IF r.err = "nil"
                  THEN [id \in DOMAIN createdAs \cup {call[p].volumeID} |->
                           IF id = call[p].volumeID THEN call[p].v
                           ELSE createdAs[id]]
                  ELSE createdAs
    /\ UNCHANGED <<dirs, mounts, used, nops, deleted, interrupted, aux>>

\* ---------------------------------------------------------------- Inspect

\* Lines 125-127: returns nil, nil whatever the ids are.
Inspect(p, volumeID) ==
    /\ Start(p)
    /\ Return(p, [Idle EXCEPT !.op = "Inspect", !.volumeID = volumeID], "nil")
    /\ UNCHANGED <<db, dirs, mounts, used, deleted, interrupted,
                   created, createdAs, aux>>

\* ------------------------------------------- snapshots, telemetry, Enumerate

\* The operations the driver does not support.
UnsupportedOps ==
    {"Snapshot", "SnapDelete", "SnapInspect", "Stats", "Alerts",
     "Enumerate", "SnapEnumerate"}

\* The driver as it would be if Stats answered a zero value and no error.
UnsupportedButStats(op) == IF op = "Stats" THEN "nil" ELSE ErrNotSupported

\* Lines 146-172: the error each of them returns.
Unsupported(op) == ErrNotSupported

\* Lines 146-148.
Snapshot(p, volumeID) ==
    /\ Start(p)
    /\ Return(p, [Idle EXCEPT !.op = "Snapshot", !.volumeID = volumeID],
              Unsupported("Snapshot"))
    /\ UNCHANGED <<db, dirs, mounts, used, deleted, interrupted,
                   created, createdAs, aux>>

\* Lines 150-152.
SnapDelete(p) ==
    /\ Start(p)
    /\ Return(p, [Idle EXCEPT !.op = "SnapDelete"], Unsupported("SnapDelete"))
    /\ UNCHANGED <<db, dirs, mounts, used, deleted, interrupted,
                   created, createdAs, aux>>

\* Lines 154-156.
SnapInspect(p) ==
    /\ Start(p)
    /\ Return(p, [Idle EXCEPT !.op = "SnapInspect"],
              Unsupported("SnapInspect"))
    /\ UNCHANGED <<db, dirs, mounts, used, deleted, interrupted,
                   created, createdAs, aux>>

\* Lines 158-160.
Stats(p, volumeID) ==
    /\ Start(p)
    /\ Return(p, [Idle EXCEPT !.op = "Stats", !.volumeID = volumeID],
              Unsupported("Stats"))
    /\ UNCHANGED <<db, dirs, mounts, used, deleted, interrupted,
                   created, createdAs, aux>>

\* Lines 162-164.
Alerts(p, volumeID) ==
    /\ Start(p)
    /\ Return(p, [Idle EXCEPT !.op = "Alerts", !.volumeID = volumeID],
              Unsupported("Alerts"))
    /\ UNCHANGED <<db, dirs, mounts, used, deleted, interrupted,
                   created, createdAs, aux>>

\* Lines 166-168.
Enumerate(p) ==
    /\ Start(p)
    /\ Return(p, [Idle EXCEPT !.op = "Enumerate"], Unsupported("Enumerate"))
    /\ UNCHANGED <<db, dirs, mounts, used, deleted, interrupted,
                   created, createdAs, aux>>

\* Lines 170-172.
SnapEnumerate(p) ==
    /\ Start(p)
    /\ Return(p, [Idle EXCEPT !.op = "SnapEnumerate"],
              Unsupported("SnapEnumerate"))
    /\ UNCHANGED <<db, dirs, mounts, used, deleted, interrupted,
                   created, createdAs, aux>>

\* ----------------------------------------------------------------- Delete

\* Lines 130-133.
DeleteGet(p, volumeID) ==
    /\ Start(p)
    /\ \E reachable \in BOOLEAN :
         LET r == get(volumeID, reachable)
             c == [Idle EXCEPT !.op = "Delete", !.volumeID = volumeID]
         IN  IF r.err # "nil" THEN Return(p, c, r.err)
             ELSE Goto(p, [c EXCEPT !.pc = "delete_remove", !.v = r.v])
    /\ UNCHANGED <<db, dirs, mounts, used, deleted, interrupted,
                   created, createdAs, aux>>

\* Lines 136-139: os.Remove(v.device).  A directory that is not there cannot
\* be removed; one that is there may still refuse (not empty, busy).
DeleteRemove(p) ==
    /\ call[p].pc = "delete_remove"
    /\ \/ /\ call[p].v.device \in dirs
          /\ dirs' = dirs \ {call[p].v.device}
          /\ Goto(p, [call[p] EXCEPT !.pc = "delete_del"])
       \/ /\ Return(p, call[p], ErrOS)
          /\ UNCHANGED dirs
    /\ UNCHANGED <<db, mounts, used, nops, deleted, interrupted,
                   created, createdAs, aux>>

\* Lines 141-143: d.del, then return nil.
DeleteDel(p) ==
    /\ call[p].pc = "delete_del"
    /\ \E reachable \in BOOLEAN : db' = del(call[p].volumeID, reachable)
    /\ Return(p, call[p], "nil")
    /\ deleted' = deleted \cup {call[p].volumeID}
    /\ UNCHANGED <<dirs, mounts, used, nops, interrupted,
                   created, createdAs, aux>>

\* ------------------------------------------------------------------ Mount

\* Lines 185-186: the record Mount writes back.
MountRecord(v, mountpath) ==
    [v EXCEPT !.mountpath = mountpath, !.mounted = TRUE]

\* Lines 175-178.
MountGet(p, volumeID, mountpath) ==
    /\ Start(p)
    /\ \E reachable \in BOOLEAN :
         LET r == get(volumeID, reachable)
             c == [Idle EXCEPT !.op = "Mount", !.volumeID = volumeID,
                               !.mountpath = mountpath]
         IN  IF r.err # "nil" THEN Return(p, c, r.err)
             ELSE Goto(p, [c EXCEPT !.pc = "mount_syscall", !.v = r.v])
    /\ UNCHANGED <<db, dirs, mounts, used, deleted, interrupted,
                   created, createdAs, aux>>

\* Mount as it would be if it wrote the record before looking at the
\* syscall's error.
MountSyscallFailedWritesRecord(p) ==
    /\ Return(p, call[p], ErrOS)
    /\ db' = put(call[p].volumeID,
                 MountRecord(call[p].v, call[p].mountpath), TRUE).db
    /\ UNCHANGED mounts

\* Lines 181-183: the syscall failed; its error goes to the caller.
MountSyscallFailed(p) ==
    /\ Return(p, call[p], ErrOS)
    /\ UNCHANGED <<mounts, db>>

\* Lines 180-183: syscall.Mount(v.device, mountpath, v.spec.Format, 0, "").
MountSyscall(p) ==
    /\ call[p].pc = "mount_syscall"
    /\ \/ /\ CanMount(call[p].v.device, call[p].mountpath,
                      call[p].v.spec.Format)
          /\ mounts' = SysMount(call[p].v.device, call[p].mountpath)
          /\ Goto(p, [call[p] EXCEPT !.pc = "mount_put"])
          /\ UNCHANGED db
       \/ MountSyscallFailed(p)
    /\ UNCHANGED <<dirs, used, nops, deleted, interrupted,
                   created, createdAs, aux>>

\* Lines 185-189.
MountPut(p) ==
    /\ call[p].pc = "mount_put"
    /\ \E reachable \in BOOLEAN :
         LET r == put(call[p].volumeID,
                      MountRecord(call[p].v, call[p].mountpath), reachable)
         IN  /\ db' = r.db
             /\ Return(p, call[p], r.err)
    /\ UNCHANGED <<dirs, mounts, used, nops, deleted, interrupted,
                   created, createdAs, aux>>

\* ---------------------------------------------------------------- Unmount

\* Unmount as it would be if it cleared the flag and kept the path.
UnmountRecordKeepsPath(v) == [v EXCEPT !.mounted = FALSE]

\* Lines 203-204: the record Unmount writes back.
UnmountRecord(v) == [v EXCEPT !.mountpath = "", !.mounted = FALSE]

\* Lines 193-196.
UnmountGet(p, volumeID, mountpath) ==
    /\ Start(p)
    /\ \E reachable \in BOOLEAN :
         LET r == get(volumeID, reachable)
             c == [Idle EXCEPT !.op = "Unmount", !.volumeID = volumeID,
                               !.mountpath = mountpath]
         IN  IF r.err # "nil" THEN Return(p, c, r.err)
             ELSE Goto(p, [c EXCEPT !.pc = "unmount_syscall", !.v = r.v])
    /\ UNCHANGED <<db, dirs, mounts, used, deleted, interrupted,
                   created, createdAs, aux>>

\* Lines 199-201: the syscall failed; its error goes to the caller.
UnmountSyscallFailed(p) ==
    /\ Return(p, call[p], ErrOS)
    /\ UNCHANGED <<mounts, db>>

\* Lines 198-201: syscall.Unmount(v.mountpath, 0): the path of the record,
\* not the mountpath argument.
UnmountSyscall(p) ==
    /\ call[p].pc = "unmount_syscall"
    /\ \/ /\ CanUnmount(call[p].v.mountpath)
          /\ mounts' = SysUnmount(call[p].v.mountpath)
          /\ Goto(p, [call[p] EXCEPT !.pc = "unmount_put"])
          /\ UNCHANGED db
       \/ UnmountSyscallFailed(p)
    /\ UNCHANGED <<dirs, used, nops, deleted, interrupted,
                   created, createdAs, aux>>

\* Lines 203-207.
UnmountPut(p) ==
    /\ call[p].pc = "unmount_put"
    /\ \E reachable \in BOOLEAN :
         LET r == put(call[p].volumeID, UnmountRecord(call[p].v), reachable)
         IN  /\ db' = r.db
             /\ Return(p, call[p], r.err)
    /\ UNCHANGED <<dirs, mounts, used, nops, deleted, interrupted,
                   created, createdAs, aux>>

\* --------------------------------------------------------------- Shutdown

\* Lines 210-212: a log line.  Callers call it with no operation in flight.
Shutdown(p) ==
    /\ \A q \in Workers : call[q].pc = "idle"
    /\ Start(p)
    /\ Return(p, [Idle EXCEPT !.op = "Shutdown"], "nil")
    /\ UNCHANGED <<db, dirs, mounts, used, deleted, interrupted,
                   created, createdAs, aux>>

\* ------------------------------------------------------------------ crash

\* The process dies with operations in flight: every worker is gone, the
\* store, the filesystem and the kernel's mount table stay as they are.
Crash ==
    /\ \E p \in Workers : call[p].pc # "idle"
    /\ call' = [p \in Workers |-> Idle]
    /\ ret' = NoResult
    /\ interrupted' = interrupted \cup
         {call[p].volumeID : p \in {q \in Workers : call[q].pc = "delete_del"}}
    /\ UNCHANGED <<db, dirs, mounts, used, nops, deleted,
                   created, createdAs, aux>>

\* ------------------------------------- ErrStoragePoolResizeInProgress.Error

\* The pools an error value may carry: api.StoragePool with its Uuid and
\* its LastOperation (nil, or Type, Msg and Params).
PoolUuids == {"pool-1", "pool-2"}
OperationTypes == {"RESIZE", "OTHER"}
Msgs == {"expanding", "rebalancing", "done"}
ParamsValues == {"+50GiB", "+1TiB", "auto"}

Operations == [Type : OperationTypes, Msg : Msgs, Params : ParamsValues]

Pools == [Uuid : PoolUuids, LastOperation : Operations \cup {NilOperation}]

\* Reading a field through a nil pointer ends the goroutine in a panic.
Panic == <<"panic: invalid memory address or nil pointer dereference">>

\* Error() as it would be if it did not look at the operation's type.
ErrorOfAnyOperation(e) ==
    LET m == <<"a resize for pool: ", e.Pool.Uuid, " is already in progress.">>
        op == e.Pool.LastOperation
    IN  IF e.Pool = NoPool
        THEN Panic
        ELSE IF op # NilOperation
             THEN m \o <<" ", op.Msg, " ", op.Params>>
             ELSE m

\* Lines 47-57.  GetUuid() is safe on a nil Pool, e.Pool.LastOperation is
\* not.  A message is the sequence of the pieces fmt.Sprintf puts
\* one after the other: the text of the format and the values of its verbs.
Error(e) ==
    LET m == <<"a resize for pool: ", e.Pool.Uuid, " is already in progress.">>
        op == e.Pool.LastOperation
    IN  IF e.Pool = NoPool
        THEN Panic
        ELSE IF op # NilOperation
             THEN IF op.Type = "RESIZE"
                  THEN m \o <<" ", op.Msg, " ", op.Params>>
                  ELSE m
             ELSE m

\* A message contains a value when the value is one of its pieces.
Contains(msg, piece) == \E i \in 1..Len(msg) : msg[i] = piece

\* A caller renders the error of the pool.
RenderError ==
    /\ errMsg = NoMsg
    /\ errMsg' = Error([Pool |-> pool])
    /\ UNCHANGED <<db, dirs, mounts, used, call, ret, nops, deleted,
                   interrupted, created, createdAs, codec, nfsMount,
                   pool>>

ErrInit ==
    /\ DriverInit
    /\ pool \in Pools \cup {NoPool}
    /\ errMsg = NoMsg

ErrNext == RenderError

ErrSpec == ErrInit /\ [][ErrNext]_vars

\* ------------------------------------------------------------ specification

Next ==
    \/ \E p \in Workers, spec \in Specs : CreateMkdir(p, spec)
    \/ \E p \in Workers : CreatePut(p)
    \/ \E p \in Workers, volumeID \in VolumeIDs : Inspect(p, volumeID)
    \/ \E p \in Workers, volumeID \in VolumeIDs : Snapshot(p, volumeID)
    \/ \E p \in Workers : SnapDelete(p)
    \/ \E p \in Workers : SnapInspect(p)
    \/ \E p \in Workers, volumeID \in VolumeIDs : Stats(p, volumeID)
    \/ \E p \in Workers, volumeID \in VolumeIDs : Alerts(p, volumeID)
    \/ \E p \in Workers : Enumerate(p)
    \/ \E p \in Workers : SnapEnumerate(p)
    \/ \E p \in Workers, volumeID \in VolumeIDs : DeleteGet(p, volumeID)
    \/ \E p \in Workers : DeleteRemove(p)
    \/ \E p \in Workers : DeleteDel(p)
    \/ \E p \in Workers, volumeID \in VolumeIDs, mountpath \in TargetArgs :
           MountGet(p, volumeID, mountpath)
    \/ \E p \in Workers : MountSyscall(p)
    \/ \E p \in Workers : MountPut(p)
    \/ \E p \in Workers, volumeID \in VolumeIDs, mountpath \in TargetArgs :
           UnmountGet(p, volumeID, mountpath)
    \/ \E p \in Workers : UnmountSyscall(p)
    \/ \E p \in Workers : UnmountPut(p)
    \/ \E p \in Workers : Shutdown(p)
    \/ Crash

Spec == Init /\ [][Next]_vars

\* ------------------------------------------------------- reading the state

\* The persisted record of a volume, when there is one.
HasRecord(volumeID) == Key(volumeID) \in DOMAIN db

\* As d.get reads it.
Record(volumeID) == Unmarshal(db[Key(volumeID)])

\* This step is the return of worker p's operation op with error err.
Returns(p, op, err) ==
    /\ call[p].pc # "idle"
    /\ call[p].op = op
    /\ call'[p].pc = "idle"
    /\ ret' = Result(call[p], err)

\* This step is the first step of an operation op called on the volume: it
\* either goes on inside the operation or returns at once.
Begins(op, volumeID) ==
    /\ nops' = nops + 1
    /\ \/ \E p \in Workers : /\ call'[p].pc # "idle"
                              /\ call[p].pc = "idle"
                              /\ call'[p].op = op
                              /\ call'[p].volumeID = volumeID
       \/ /\ call' = call
          /\ ret'.op = op
          /\ ret'.volumeID = volumeID

\* The operation that begins in this step returns err in the same step.
ReturnsAtOnce(err) == call' = call /\ ret'.err = err

\* The operations that look a volume up by its id.
LookupOps == {"Inspect", "Mount", "Unmount", "Delete"}

\* Some worker stands inside an operation on the volume.
InFlight(volumeID) ==
    \E p \in Workers : call[p].pc # "idle" /\ call[p].volumeID = volumeID

\* The mount points the kernel has bound to a device.
MountPoints(device) ==
    {t \in Targets : \E i \in 1..Len(mounts[t]) : mounts[t][i] = device}

\* ------------------------------------------------------------------ claims

\* C1: operations on one VolumeID are serialized; in particular a Mount or
\* Unmount that read the record before a concurrent Delete removed it does
\* not write the record back once the Delete has completed.  As a property
\* of steps: a worker that stands before the put of Mount or Unmount while
\* a completed Delete has removed the record leaves the record removed.
C1_NoWriteBackAfterDelete ==
    [][\A p \in Workers :
         (/\ call[p].pc \in {"mount_put", "unmount_put"}
          /\ call[p].volumeID \in deleted
          /\ ~HasRecord(call[p].volumeID)
          /\ call'[p].pc = "idle")
         => Key(call[p].volumeID) \notin DOMAIN db']_vars

\* C2: a Mount that returns nil leaves the record mounted, with the
\* requested mountpath, and attached.
C2_MountPostcondition ==
    [][\A p \in Workers :
         Returns(p, "Mount", "nil")
         => /\ Key(call[p].volumeID) \in DOMAIN db'
            /\ LET r == Unmarshal(db'[Key(call[p].volumeID)])
               IN  /\ r.mounted = TRUE
                   /\ r.mountpath = call[p].mountpath
                   /\ r.attached = TRUE]_vars

\* C3: an Unmount that returns nil leaves the record with mounted = FALSE
\* and mountpath = "".
C3_UnmountPostcondition ==
    [][\A p \in Workers :
         Returns(p, "Unmount", "nil")
         => /\ Key(call[p].volumeID) \in DOMAIN db'
            /\ LET r == Unmarshal(db'[Key(call[p].volumeID)])
               IN  /\ r.mounted = FALSE
                   /\ r.mountpath = ""]_vars

\* C3 witness: an Unmount of a volume that was mounted has just returned
\* nil, and the record says unmounted.
C3_Witness ==
    /\ ret.op = "Unmount"
    /\ ret.err = "nil"
    /\ HasRecord(ret.volumeID)
    /\ Record(ret.volumeID).mounted = FALSE
    /\ Record(ret.volumeID).mountpath = ""
    /\ \A p \in Workers : call[p].pc = "idle"

\* C4: every persisted record that is mounted has a mountpath and is
\* attached.
C4_MountedImpliesAttached ==
    \A k \in DOMAIN db :
        LET r == Unmarshal(db[k])
        IN  r.mounted = TRUE => (r.mountpath # "" /\ r.attached = TRUE)

\* C5: once a Delete of a volume has returned nil, every later Inspect, Mount,
\* Unmount or Delete of that volume fails at once with NotFound (a store
\* that cannot be reached may answer with its own error instead).
C5_DeleteFinality ==
    [][\A volumeID \in deleted, op \in LookupOps :
         Begins(op, volumeID)
         => (ReturnsAtOnce(ErrKeyNotFound) \/ ReturnsAtOnce(ErrStore))]_vars

\* C6: Inspect, Mount, Unmount and Delete return NotFound exactly when no
\* record of the volume is persisted; a store that cannot be reached
\* answers with an error other than NotFound.
C6_ExistenceSymmetry ==
    [][\A volumeID \in VolumeIDs, op \in LookupOps :
         Begins(op, volumeID)
         => /\ ~HasRecord(volumeID)
                 => (ReturnsAtOnce(ErrKeyNotFound) \/ ReturnsAtOnce(ErrStore))
            /\ ReturnsAtOnce(ErrKeyNotFound) => ~HasRecord(volumeID)]_vars

\* C7: a Mount whose mount syscall fails, and an Unmount whose unmount
\* syscall fails, returns an error and has written nothing: neither its
\* first step (the get) nor the step of the failing syscall changes the
\* store.
C7_SyscallFailureKeepsRecord ==
    [][/\ \A volumeID \in VolumeIDs, op \in {"Mount", "Unmount"} :
            Begins(op, volumeID) => db' = db
       /\ \A p \in Workers :
            (/\ call[p].pc \in {"mount_syscall", "unmount_syscall"}
             /\ call'[p].pc = "idle"
             /\ ret'.op = call[p].op)
            => /\ ret' = Result(call[p], ErrOS)
               /\ db' = db]_vars

\* C7 witness: a Mount of an existing volume has just failed in the syscall,
\* and the record is the one Create wrote.
C7_Witness ==
    /\ ret.op = "Mount"
    /\ ret.err = ErrOS
    /\ ret.mountpath \in Targets
    /\ HasRecord(ret.volumeID)
    /\ Record(ret.volumeID).mounted = FALSE
    /\ Record(ret.volumeID).mountpath = ""
    /\ \A p \in Workers : call[p].pc = "idle"

\* C8: while no operation on a volume is in flight, the mount points the
\* kernel has bound to the volume's device are exactly {mountpath} when the
\* record says mounted, and none when it says not mounted.
C8_RecordMatchesMounts ==
    \A volumeID \in VolumeIDs :
        (HasRecord(volumeID) /\ ~InFlight(volumeID))
        => MountPoints(Record(volumeID).device) =
              IF Record(volumeID).mounted
              THEN {Record(volumeID).mountpath}
              ELSE {}

\* C9: a Delete that is retried after a crash cut an earlier Delete between
\* the release of the backend storage and the removal of the record does
\* not fail at the release of the backend storage.
C9_DeleteRetrySucceeds ==
    [][\A p \in Workers :
         (/\ call[p].pc = "delete_remove"
          /\ call[p].volumeID \in interrupted
          /\ call'[p] # call[p]
          /\ ret'.op = "Delete")
         => call'[p].pc = "delete_del"]_vars

\* C10: while no operation is in flight, a volume has a record in the store
\* exactly when its backend directory exists.
C10_RecordIffBackend ==
    (\A p \in Workers : call[p].pc = "idle")
    => \A volumeID \in VolumeIDs :
          HasRecord(volumeID) <=> Device(volumeID) \in dirs

\* C11: the ids successful Creates return are pairwise distinct, and an id
\* that was deleted is not returned again: a Create that returns nil
\* returns an id that no earlier Create returned and no Delete removed.
C11_FreshVolumeIDs ==
    [][\A p \in Workers :
         Returns(p, "Create", "nil")
         => /\ call[p].volumeID \notin created
            /\ call[p].volumeID \notin deleted]_vars

\* C11 witness: two Creates have returned ids, the second after the first
\* id was deleted.
C11_Witness ==
    /\ Cardinality(created) = 2
    /\ deleted # {}
    /\ ret.op = "Create"
    /\ ret.err = "nil"
    /\ ret.volumeID \notin deleted

\* C12: Snapshot, SnapDelete, SnapInspect, SnapEnumerate, Stats and Alerts
\* return exactly the NotSupported error, in every state and for every
\* argument, and change neither the store nor the directories nor the mounts.
C12_NotSupported ==
    [][\A op \in {"Snapshot", "SnapDelete", "SnapInspect", "SnapEnumerate",
                  "Stats", "Alerts"} :
         (nops' = nops + 1 /\ call' = call /\ ret'.op = op)
         => /\ ret'.err = ErrNotSupported
            /\ UNCHANGED <<db, dirs, mounts>>]_vars

\* C12 witness: Stats of a mounted volume has just returned NotSupported.
C12_Witness ==
    /\ ret.op = "Stats"
    /\ ret.err = ErrNotSupported
    /\ HasRecord(ret.volumeID)
    /\ Record(ret.volumeID).mounted = TRUE

\* C13: once Shutdown has returned, the NFS server that Init mounted at the
\* driver's mount path is no longer mounted.
C13_ShutdownUnmounts ==
    ret.op = "Shutdown" => nfsMount = FALSE

\* C14: the rendered message of a ResizeInProgress error that carries a pool
\* contains the pool's identifier; it contains the last operation's Msg and
\* Params when the pool has a LastOperation of type RESIZE, and otherwise it
\* contains no Msg and no Params at all.
C14_ResizeMessage ==
    (errMsg # NoMsg /\ pool # NoPool)
    => /\ Contains(errMsg, pool.Uuid)
       /\ IF pool.LastOperation # NilOperation
             /\ pool.LastOperation.Type = "RESIZE"
          THEN /\ Contains(errMsg, pool.LastOperation.Msg)
               /\ Contains(errMsg, pool.LastOperation.Params)
          ELSE \A x \in Msgs \cup ParamsValues : ~Contains(errMsg, x)

\* C14 witness: the message of a pool whose last operation is the resize
\* "expanding" by "+50GiB" has been rendered.
C14_Witness ==
    /\ errMsg # NoMsg
    /\ pool.LastOperation = [Type |-> "RESIZE", Msg |-> "expanding",
                             Params |-> "+50GiB"]
    /\ Contains(errMsg, pool.Uuid)
    /\ Contains(errMsg, "expanding")
    /\ Contains(errMsg, "+50GiB")

\* What the store holds under the key of a volume: nothing, or one value.
Stored(volumeID) ==
    IF Key(volumeID) \in DOMAIN db THEN <<db[Key(volumeID)]>> ELSE << >>

\* C15: operations on different VolumeIDs are independent.  In every step,
\* what the store holds for a VolumeID b changes only by the put or the del
\* of an operation that acts on b; a step of an operation on another
\* VolumeID leaves it as it is, whatever else is in flight.
C15_Independence ==
    [][\A b \in VolumeIDs :
         Stored(b)' # Stored(b)
         => \E p \in Workers :
              /\ call[p].volumeID = b
              /\ call[p].pc \in {"create_put", "mount_put", "unmount_put",
                                  "delete_del"}
              /\ call'[p].pc = "idle"]_vars

\* C15 witness: two volumes have records, a Mount of one has returned with
\* success while a Mount of the other is between its syscall and its put,
\* and the record of the other is still the unmounted one.
C15_Witness ==
    /\ ret.op = "Mount" /\ ret.err = "nil"
    /\ HasRecord(ret.volumeID)
    /\ Record(ret.volumeID).mounted = TRUE
    /\ \E q \in Workers :
         /\ call[q].pc = "mount_put"
         /\ call[q].volumeID # ret.volumeID
         /\ HasRecord(call[q].volumeID)
         /\ Record(call[q].volumeID).mounted = FALSE
         /\ Record(call[q].volumeID).device = Device(call[q].volumeID)

\* The record the put of an operation hands to the store: Create's new
\* record, Mount's and Unmount's changed copy of the record they read.
Written(c) ==
    CASE c.op = "Mount"   -> MountRecord(c.v, c.mountpath)
      [] c.op = "Unmount" -> UnmountRecord(c.v)
      [] OTHER            -> c.v

\* C16: state store round trip.  When the put of a Create, a Mount or an
\* Unmount has succeeded, a get of the same id straight after it finds the
\* record, equal in every field (spec, formatted, attached, mounted, device,
\* mountpath) to the record that was put.
C16_RoundTrip ==
    [][\A p \in Workers : \A op \in {"Create", "Mount", "Unmount"} :
         Returns(p, op, "nil")
         => /\ Key(call[p].volumeID) \in DOMAIN db'
            /\ Unmarshal(db'[Key(call[p].volumeID)]) = Written(call[p])]_vars

\* C17: spec and device are immutable after creation.  Once a Mount or an
\* Unmount of a created volume has returned, with nil or with an error, the
\* record persisted for the volume, if there is one, has the spec and the
\* device that Create wrote.
C17_SpecAndDeviceImmutable ==
    \A id \in DOMAIN createdAs :
        (ret.op \in {"Mount", "Unmount"} /\ ret.volumeID = id /\ HasRecord(id))
        => /\ Record(id).spec = createdAs[id].spec
           /\ Record(id).device = createdAs[id].device

\* C18: Unmount unbinds the volume at the target its caller names.  Its
\* unmount syscall goes through only when the record it read says the volume
\* is mounted at that target, and it then removes the mount at that target
\* and no other; otherwise the call fails before any mount or record changes.
C18_UnmountAtTarget ==
    [][\A p \in Workers :
         (call[p].pc = "unmount_syscall" /\ call'[p].pc = "unmount_put")
         => /\ call[p].v.mounted = TRUE
            /\ call[p].v.mountpath = call[p].mountpath
            /\ mounts' = SysUnmount(call[p].mountpath)]_vars

\* C19: Delete respects the lifecycle.  When a Delete that found the record
\* saying mounted = TRUE returns nil, the kernel has no mount of the
\* volume's device left.
C19_DeleteLeavesNoMount ==
    [][\A p \in Workers :
         (Returns(p, "Delete", "nil") /\ call[p].v.mounted = TRUE)
         => \A t \in Targets : \A i \in 1..Len(mounts'[t]) :
              mounts'[t][i] # Device(call[p].volumeID)]_vars

====
